---- MODULE Spec2Model ----
(***************************************************************************)
(* A model of notion-deglacer (src/deglacer.go): the HTTP handler `index`, *)
(* the fire-and-forget goroutine `unfurl`, and the preview function        *)
(* `get_text`.                                                             *)
(*                                                                         *)
(* Go strings are modelled as what they are, sequences of bytes (tuples of *)
(* numbers 0..255), wherever the code looks inside them (the markdown of a *)
(* page and the preview text).  Strings the code only passes around or     *)
(* compares with "" (titles, the challenge token, channel ids) are TLA+    *)
(* strings.                                                                *)
(***************************************************************************)
EXTENDS Integers, Sequences, FiniteSets, TLC

VARIABLES
    \* ---- the HTTP handler and the unfurl goroutines (Spec) ----
    req,        \* req[r]: the inbound request r as received
    hpc,        \* hpc[r]: position of the handler goroutine of request r
    resp,       \* resp[r]: what the handler wrote to its ResponseWriter
    task,       \* task[r]: the unfurl goroutine spawned for request r
    fetchLog,   \* fetchLog[r]: the DownloadPage calls made by r's goroutine
    postLog,    \* postLog[r]: the PostMessage calls made by r's goroutine
    hlog,       \* hlog[r]: the calls the handler of request r made, in order
    crashed,    \* the process died of an unrecovered panic in a goroutine
    \* ---- get_text taken alone (TextSpec) ----
    md,         \* the markdown of the page, string(tomarkdown.ToMarkdown(page))
    text,       \* the local `text` of get_text (line 158)
    preview,    \* the string get_text returns
    gpc         \* position inside get_text

handlerVars == <<req, hpc, resp, task, fetchLog, postLog, hlog, crashed>>
textVars == <<md, text, preview, gpc>>
vars == <<req, hpc, resp, task, fetchLog, postLog, hlog, crashed, md, text, preview, gpc>>

-----------------------------------------------------------------------------
(* Bytes, runes and UTF-8, as Go's string <-> []rune conversions do them.  *)

NL == 10            \* "\n"
RuneError == 65533  \* U+FFFD, what Go decodes an invalid byte to

Min(a, b) == IF a <= b THEN a ELSE b

IsCont(b) == 128 <= b /\ b <= 191
IsLead2(b) == 194 <= b /\ b <= 223
IsLead3(b) == 224 <= b /\ b <= 239

\* s[i..] starts with a well-formed two-byte encoding
Valid2(s, i) ==
    /\ IsLead2(s[i])
    /\ i + 1 <= Len(s)
    /\ IsCont(s[i + 1])

\* s[i..] starts with a well-formed three-byte encoding (no overlong form, no
\* surrogate: the second byte's range depends on the lead, as in utf8.DecodeRune)
Valid3(s, i) ==
    /\ IsLead3(s[i])
    /\ i + 2 <= Len(s)
    /\ IF s[i] = 224 THEN 160 <= s[i + 1] /\ s[i + 1] <= 191
       ELSE IF s[i] = 237 THEN 128 <= s[i + 1] /\ s[i + 1] <= 159
       ELSE IsCont(s[i + 1])
    /\ IsCont(s[i + 2])

\* byte i is the second or third byte of a well-formed encoding, so the decoder
\* never starts a rune there (a lead byte is never a continuation byte, so a
\* well-formed encoding always starts at a rune boundary)
Interior(s, i) ==
    \/ i >= 2 /\ (Valid2(s, i - 1) \/ Valid3(s, i - 1))
    \/ i >= 3 /\ Valid3(s, i - 2)

\* the rune the decoder yields at a rune boundary i: the decoded code point, or
\* U+FFFD for a byte that starts no well-formed encoding (it then consumes one byte)
RuneAt(s, i) ==
    IF s[i] < 128 THEN s[i]
    ELSE IF Valid2(s, i) THEN (s[i] - 192) * 64 + (s[i + 1] - 128)
    ELSE IF Valid3(s, i) THEN (s[i] - 224) * 4096 + (s[i + 1] - 128) * 64 + (s[i + 2] - 128)
    ELSE RuneError

\* []rune(s) restricted to the bytes lo..hi of s
RECURSIVE RunesBetween(_, _, _)
RunesBetween(s, lo, hi) ==
    IF lo > hi THEN << >>
    ELSE IF lo = hi THEN (IF Interior(s, lo) THEN << >> ELSE << RuneAt(s, lo) >>)
    ELSE LET mid == (lo + hi) \div 2
         IN RunesBetween(s, lo, mid) \o RunesBetween(s, mid + 1, hi)

\* []rune(s): the code points of a string (bytes 240..255, which start the
\* four-byte forms, are outside the documents drawn here)
Runes(s) == RunesBetween(s, 1, Len(s))

\* the UTF-8 encoding of one rune of the basic plane
EncodeRune(r) ==
    IF r < 128 THEN << r >>
    ELSE IF r < 2048 THEN << 192 + (r \div 64), 128 + (r % 64) >>
    ELSE << 224 + (r \div 4096), 128 + ((r \div 64) % 64), 128 + (r % 64) >>

RECURSIVE EncodeBetween(_, _, _)
EncodeBetween(rs, lo, hi) ==
    IF lo > hi THEN << >>
    ELSE IF lo = hi THEN EncodeRune(rs[lo])
    ELSE LET mid == (lo + hi) \div 2
         IN EncodeBetween(rs, lo, mid) \o EncodeBetween(rs, mid + 1, hi)

\* string(rs)
RunesToString(rs) == EncodeBetween(rs, 1, Len(rs))

-----------------------------------------------------------------------------
(* get_text, src/deglacer.go:141-166                                       *)

num_lines == 25
max_chars == 1000

\* a set of numbers as the sequence of its elements in increasing order
Sorted(P) ==
    [j \in 1..Cardinality(P) |-> CHOOSE p \in P : Cardinality({q \in P : q < p}) = j - 1]

\* strings.Split(s, "\n"): the pieces between the newlines, one more than
\* there are newlines (so at least one, the empty string for an empty s)
Split(s) ==
    LET ps == Sorted({i \in 1..Len(s) : s[i] = NL})
        k == Len(ps)
    IN [j \in 1..(k + 1) |->
          SubSeq(s, IF j = 1 THEN 1 ELSE ps[j - 1] + 1,
                    IF j = k + 1 THEN Len(s) ELSE ps[j] - 1)]

\* a loop that keeps only the lines that are not empty
RECURSIVE SelectNonEmptyLines(_, _, _)
SelectNonEmptyLines(pieces, i, lines) ==
    IF i >= Len(pieces) THEN lines
    ELSE LET appended == IF i # 0 /\ i # 1 /\ pieces[i + 1] # << >>
                         THEN Append(lines, pieces[i + 1]) ELSE lines
         IN IF Len(appended) >= num_lines THEN appended
            ELSE SelectNonEmptyLines(pieces, i + 1, appended)

\* the range loop of lines 148-157 from index i (0-based, as in the code) on,
\* with `lines` as built so far
RECURSIVE SelectLines(_, _, _)
SelectLines(pieces, i, lines) ==
    IF i >= Len(pieces) THEN lines
    ELSE LET appended == IF i # 0 /\ i # 1 THEN Append(lines, pieces[i + 1]) ELSE lines
         IN IF Len(appended) >= num_lines THEN appended
            ELSE SelectLines(pieces, i + 1, appended)

\* strings.Join(lines, "\n")
RECURSIVE Join(_)
Join(lines) ==
    IF Len(lines) = 0 THEN << >>
    ELSE IF Len(lines) = 1 THEN lines[1]
    ELSE Join(SubSeq(lines, 1, Len(lines) - 1)) \o << NL >> \o lines[Len(lines)]

\* lines 147-158: the local `text`
ExtractText(m) == Join(SelectLines(Split(m), 0, << >>))

\* a plausible slip: the cap taken on bytes (len(text), text[:max_chars])
TruncateBytes(t) ==
    IF Len(t) >= max_chars THEN RunesToString(Runes(SubSeq(t, 1, max_chars)))
    ELSE RunesToString(Runes(t))

\* lines 160-165: rs := []rune(text); cut to max_chars runes; string(rs)
TruncateText(t) ==
    LET rs == Runes(t)
    IN RunesToString(IF Len(rs) >= max_chars THEN SubSeq(rs, 1, max_chars) ELSE rs)

get_text(m) == TruncateText(ExtractText(m))

-----------------------------------------------------------------------------
(* get_text taken alone: the documents it is applied to.                   *)

MaxExtraLines == 2  \* lines a document has beyond the num_lines that are kept
MaxOver == 1        \* runes a line has beyond (and short of) max_chars

\* the characters lines are made of: "a", "é" (two bytes), "あ" (three bytes),
\* and a stray continuation byte (not UTF-8: []rune reads it as U+FFFD)
Units == { << 97 >>, << 195, 169 >>, << 227, 129, 130 >>, << 169 >> }

\* n times the character `unit`
Line(unit, n) == [i \in 1..(n * Len(unit)) |-> unit[((i - 1) % Len(unit)) + 1]]

\* what precedes the body: nothing, a title line, a title line and the empty
\* line tomarkdown puts after it
Heads == { << >>, << <<84>> >>, << <<84>>, << >> >> }

\* <<number of body lines, runes per line>>
Shapes ==
    {<<n, l>> : n \in 0..3, l \in 0..1}
    \cup {<<n, l>> : n \in (num_lines - 1)..(num_lines + 1 + MaxExtraLines), l \in 0..1}
    \cup {<<n, l>> : n \in {1, 3}, l \in (max_chars - MaxOver)..(max_chars + MaxOver)}
    \cup {<<n, l>> : n \in {num_lines, num_lines + 2}, l \in {39, 40}}
    \cup {<<1, 600>>, <<2, 500>>}

\* the body lines; with `gaps`, every odd line is empty
BodyLines(unit, n, l, gaps) ==
    [k \in 1..n |-> IF gaps /\ k % 2 = 1 THEN << >> ELSE Line(unit, l)]

Documents ==
    {Join(h \o BodyLines(u, sh[1], sh[2], g)) : h \in Heads, u \in Units, sh \in Shapes, g \in BOOLEAN}

NoRequests == << >>

TextInit ==
    /\ md \in Documents
    /\ text = << >>
    /\ preview = << >>
    /\ gpc = "start"
    /\ req = NoRequests
    /\ hpc = NoRequests
    /\ resp = NoRequests
    /\ task = NoRequests
    /\ fetchLog = NoRequests
    /\ postLog = NoRequests
    /\ hlog = NoRequests
    /\ crashed = FALSE

\* lines 145-158
SelectAndJoin ==
    /\ gpc = "start"
    /\ text' = ExtractText(md)
    /\ gpc' = "joined"
    /\ UNCHANGED <<md, preview>>
    /\ UNCHANGED handlerVars

\* lines 160-165
TruncateAndReturn ==
    /\ gpc = "joined"
    /\ preview' = TruncateText(text)
    /\ gpc' = "returned"
    /\ UNCHANGED <<md, text>>
    /\ UNCHANGED handlerVars

TextNext == SelectAndJoin \/ TruncateAndReturn

TextSpec == TextInit /\ [][TextNext]_vars

-----------------------------------------------------------------------------
(* The inbound requests and the world the handler runs in.                 *)

MaxLinks == 2       \* links in one link_shared event

\* The requests the handler is followed on: one request, its handler and the
\* goroutine it spawns.  Everything below is indexed by the request.
Requests == {1}

\* strings.HasSuffix
HasSuffix(s, suffix) ==
    /\ Len(s) >= Len(suffix)
    /\ SubSeq(s, Len(s) - Len(suffix) + 1, Len(s)) = suffix

\* ".notion.so", the bytes of the literal of line 172
NotionSuffix == << 46, 110, 111, 116, 105, 111, 110, 46, 115, 111 >>

\* "notion.so": the suffix without its dot
NotionSuffixNoDot == SubSeq(NotionSuffix, 2, Len(NotionSuffix))

\* a filter that lets every link through
HasAnySuffix(domain) == TRUE

\* strings.HasSuffix(link.Domain, ".notion.so"), line 172
HasNotionSuffix(domain) == HasSuffix(domain, NotionSuffix)

\* the domains of the links: "www.notion.so", "example.com", "notion.so"
NotionDomain == << 119, 119, 119 >> \o NotionSuffix
OtherDomain == << 101, 120, 97, 109, 112, 108, 101, 46, 99, 111, 109 >>
ApexDomain == NotionSuffixNoDot

\* A URL string: the document its path names, its query and its fragment;
\* `wellformed` is whether url.Parse accepts the string.
RawURL(doc, query, fragment, wellformed) ==
    [doc |-> doc, query |-> query, fragment |-> fragment, wellformed |-> wellformed]

\* the slip the comment of line 181 warns of: the URL handed on as parsed
KeepQueryAndFragment(u) == u

\* lines 182-185: u.RawQuery = ""; u.Fragment = ""; u.String()
NormalizeURL(u) == [u EXCEPT !.query = "", !.fragment = ""]

\* notionapi.ExtractNoDashIDFromNotionURL, line 185: the id is read off the
\* end of the string, so anything after the path leaves no valid id ("")
ExtractNoDashIDFromNotionURL(s) ==
    IF s.query = "" /\ s.fragment = "" THEN s.doc ELSE ""

\* The pages behind the document API: title, the names of the collections of
\* the embedded table views in order, and the markdown tomarkdown renders.
Page(title, views, m) == [title |-> title, views |-> views, md |-> m]

PageStore ==
    [id \in {"abc123", "page", "emptyview", "bare", "board"} |->
        CASE id = "abc123"    -> Page("Doc", << >>, << 68, 10, 10, 104, 105, 10, 195, 169 >>)
          [] id = "page"      -> Page("Example", << >>, << 69 >>)
          [] id = "emptyview" -> Page("", << "", "Named" >>, << 10, 10, 120 >>)
          [] id = "bare"      -> Page("", << >>, << >>)
          [] id = "board"     -> Page("", << "Tasks", "Later" >>, << 10, 10, 116 >>)]

Link(domain, url) == [Domain |-> domain, URL |-> url]

\* the links events are made of
CandidateLinks ==
    { Link(NotionDomain, RawURL("abc123", "v=1", "", TRUE)),    \* a titled page, with a query
      Link(OtherDomain, RawURL("page", "", "", TRUE)),          \* another site
      Link(ApexDomain, RawURL("page", "", "", TRUE)),           \* no dot before notion.so
      Link(NotionDomain, RawURL("abc123", "", "", FALSE)),      \* url.Parse fails
      Link(NotionDomain, RawURL("emptyview", "", "", TRUE)),    \* no title, first view unnamed
      Link(NotionDomain, RawURL("bare", "", "", TRUE)),         \* no title, no view
      Link(NotionDomain, RawURL("board", "", "h", TRUE)) }      \* no title, first view named

RECURSIVE SeqsUpTo(_, _)
SeqsUpTo(S, n) ==
    IF n = 0 THEN { << >> }
    ELSE LET shorter == SeqsUpTo(S, n - 1)
         IN shorter \cup {Append(q, x) : q \in {t \in shorter : Len(t) = n - 1}, x \in S}

\* <<channel, message timestamp>> of the message the links were shared in
MessageRefs == { << "C1", "1.1" >>, << "C2", "2.2" >> }

EventBody(kind, challenge, ref, links) ==
    [kind |-> kind, challenge |-> challenge, channel |-> ref[1], ts |-> ref[2], links |-> links]

NoRef == << "", "" >>

\* the bodies a validly signed POST carries
Bodies ==
    { EventBody("badjson", "", NoRef, << >>),        \* not JSON
      EventBody("bad_inner", "", NoRef, << >>),      \* event_callback, inner type unknown to slackevents
      EventBody("other_inner", "", NoRef, << >>),    \* event_callback, a known inner type, not link_shared
      EventBody("other_top", "", NoRef, << >>) }     \* a top-level type that is neither
    \cup {EventBody("url_verification", c, NoRef, << >>) : c \in {"", "c0ffee"}}
    \cup {EventBody("link_shared", "", ref, ls) : ref \in MessageRefs, ls \in SeqsUpTo(CandidateLinks, MaxLinks)}

\* what a forger sends: a handshake, and an event that would cause outbound calls
ForgedBodies ==
    { EventBody("url_verification", "c0ffee", NoRef, << >>),
      EventBody("link_shared", "", << "C1", "1.1" >>,
           << Link(NotionDomain, RawURL("abc123", "v=1", "", TRUE)) >>) }

\* the signature headers: absent, not of the format, too old, of the format but
\* not the HMAC of this body under the secret, right
BadSignatures == {"missing", "malformed", "expired", "mismatch"}

Request(method, readOk, sig, connOk, body) ==
    [method |-> method, readOk |-> readOk, sig |-> sig, connOk |-> connOk, body |-> body]

RequestInputs ==
    {Request(m, TRUE, "missing", TRUE, EventBody("badjson", "", NoRef, << >>)) : m \in {"GET", "PUT"}}
    \cup {Request("POST", FALSE, "valid", TRUE, EventBody("badjson", "", NoRef, << >>))}
    \cup {Request("POST", TRUE, sg, TRUE, b) : sg \in BadSignatures, b \in ForgedBodies}
    \cup {Request("POST", TRUE, "valid", TRUE, b) : b \in Bodies}
    \cup {Request("POST", TRUE, "valid", FALSE, EventBody("url_verification", "c0ffee", NoRef, << >>))}

-----------------------------------------------------------------------------
(* index, src/deglacer.go:77-139                                           *)

Response(status, ctype, body) == [status |-> status, ctype |-> ctype, body |-> body]

\* nothing written yet
NoResponse == Response(0, "", "")

\* w.WriteHeader(http.StatusBadRequest) and return: no header set, no body
BadRequest == Response(400, "", "")

\* fmt.Fprint(w, "ok"): the first write commits status 200
OkResponse == Response(200, "", "ok")

\* slack.NewSecretsVerifier(r.Header, slackSigningSecret), line 88: an error
\* when a header is absent, is not of the format, or the timestamp is too old
NewSecretsVerifierOk(sig) == sig \notin {"missing", "malformed", "expired"}

\* a verifier that takes any signature for the right one
EnsureAlwaysOk(sig) == TRUE

\* sv.Write(body); sv.Ensure(), lines 94-95: the HMAC of the timestamp and
\* the body under the secret equals the signature sent
EnsureOk(sig) == sig = "valid"

\* a parser that reports no error, so that every body reaches the switch of
\* line 108
ParseEventAlwaysOk(body) == TRUE

\* slackevents.ParseEvent, line 101: an error for a body that is not JSON and
\* for an event_callback whose inner type slackevents does not know
ParseEventOk(body) == body.kind \notin {"badjson", "bad_inner"}

\* a handshake answered with the acknowledgment instead of the token
ChallengeResponseOk(body) == OkResponse

\* lines 110-117: the challenge echoed as text/plain; the write commits status 200
ChallengeResponse(body) == Response(200, "text/plain", body.challenge)

\* lines 117-121: w.WriteHeader after a w.Write that failed.  The status was
\* committed by the write, and net/http ignores the second WriteHeader.
WriteHeaderAfterWrite(response, status) == response

\* What index does with a request up to its return or, for a link_shared
\* event, up to and including `go unfurl(inEv)` of line 132:
\* the calls made, the response written so far, and whether unfurl was spawned.
Outcome(calls, response, spawn) == [calls |-> calls, resp |-> response, spawn |-> spawn]

index(rq) ==
    IF rq.method = "GET" THEN Outcome(<< >>, Response(200, "", "Hello"), FALSE)
    ELSE IF rq.method # "POST" THEN
        Outcome(<< >>, Response(405, "text/plain; charset=utf-8", "method not allowed\n"), FALSE)
    ELSE IF ~rq.readOk THEN Outcome(<< "ReadAll" >>, BadRequest, FALSE)
    ELSE IF ~NewSecretsVerifierOk(rq.sig) THEN
        Outcome(<< "ReadAll", "NewSecretsVerifier" >>, BadRequest, FALSE)
    ELSE IF ~EnsureOk(rq.sig) THEN
        Outcome(<< "ReadAll", "NewSecretsVerifier", "Ensure" >>, BadRequest, FALSE)
    ELSE LET verified == << "ReadAll", "NewSecretsVerifier", "Ensure", "ParseEvent" >>
         IN IF ~ParseEventOk(rq.body) THEN Outcome(verified, BadRequest, FALSE)
            ELSE IF rq.body.kind = "url_verification" THEN
                Outcome(verified,
                        IF rq.connOk THEN ChallengeResponse(rq.body)
                        ELSE WriteHeaderAfterWrite(ChallengeResponse(rq.body), 400),
                        FALSE)
            ELSE IF rq.body.kind = "other_inner" THEN Outcome(verified, OkResponse, FALSE)
            \* ParseEvent hands a link_shared inner event on as a
            \* *LinkSharedEvent, so the cast of line 127 succeeds
            ELSE IF rq.body.kind = "link_shared" THEN
                Outcome(Append(verified, "go unfurl"), NoResponse, TRUE)
            \* no case of the switch of line 108: nothing is written, and net/http
            \* answers 200 with an empty body when the handler returns
            ELSE Outcome(verified, Response(200, "", ""), FALSE)

NoTask == [pc |-> "none", i |-> 0, unfurls |-> << >>, resolved |-> {}]

\* line 169, and the first link of the range loop of line 171
NewTask == [pc |-> "loop", i |-> 1, unfurls |-> << >>, resolved |-> {}]

\* The handler of request r runs, lines 77-132.
Serve(r) ==
    /\ ~crashed
    /\ hpc[r] = "new"
    /\ LET o == index(req[r])
       IN /\ hlog' = [hlog EXCEPT ![r] = o.calls]
          /\ resp' = [resp EXCEPT ![r] = o.resp]
          /\ hpc' = [hpc EXCEPT ![r] = IF o.spawn THEN "spawned" ELSE "done"]
          /\ task' = [task EXCEPT ![r] = IF o.spawn THEN NewTask ELSE @]
    /\ UNCHANGED <<req, fetchLog, postLog, crashed>>
    /\ UNCHANGED textVars

\* an acknowledgment that is written only once the goroutine has ended
AckEnabledAfterTask(r) == hpc[r] = "spawned" /\ task[r].pc = "done"

\* the handler goes on to line 133 on its own
AckEnabled(r) == hpc[r] = "spawned"

\* fmt.Fprint(w, "ok"); return, lines 133-134
Ack(r) ==
    /\ ~crashed
    /\ AckEnabled(r)
    /\ resp' = [resp EXCEPT ![r] = OkResponse]
    /\ hpc' = [hpc EXCEPT ![r] = "done"]
    /\ UNCHANGED <<req, task, fetchLog, postLog, hlog, crashed>>
    /\ UNCHANGED textVars

-----------------------------------------------------------------------------
(* unfurl, src/deglacer.go:168-219                                         *)

Links(r) == req[r].body.links

\* the link the range loop of line 171 is at
CurrentLink(r) == Links(r)[task[r].i]

AtLink(r) ==
    /\ ~crashed
    /\ task[r].pc = "loop"
    /\ task[r].i <= Len(Links(r))

NextLink(r) == [task EXCEPT ![r].i = @ + 1]

\* lines 172-174: a link of another domain is passed over
SkipForeignDomain(r) ==
    /\ AtLink(r)
    /\ ~HasNotionSuffix(CurrentLink(r).Domain)
    /\ task' = NextLink(r)
    /\ UNCHANGED <<req, hpc, resp, fetchLog, postLog, hlog, crashed>>
    /\ UNCHANGED textVars

\* lines 175-179: url.Parse fails, the error is logged
SkipUnparsableURL(r) ==
    /\ AtLink(r)
    /\ HasNotionSuffix(CurrentLink(r).Domain)
    /\ ~CurrentLink(r).URL.wellformed
    /\ task' = NextLink(r)
    /\ UNCHANGED <<req, hpc, resp, fetchLog, postLog, hlog, crashed>>
    /\ UNCHANGED textVars

\* lines 175-186: the page id of the normalized URL, and DownloadPage called
\* a loop that does not fetch again a URL it already holds a preview of
CallDownloadPageUnlessHeld(r) ==
    /\ AtLink(r)
    /\ HasNotionSuffix(CurrentLink(r).Domain)
    /\ CurrentLink(r).URL.wellformed
    /\ IF CurrentLink(r).URL \in DOMAIN task[r].unfurls
       THEN /\ task' = [task EXCEPT ![r].i = @ + 1]
            /\ UNCHANGED fetchLog
       ELSE /\ LET pageID == ExtractNoDashIDFromNotionURL(NormalizeURL(CurrentLink(r).URL))
               IN fetchLog' = [fetchLog EXCEPT ![r] =
                                  Append(@, [i |-> task[r].i, pageID |-> pageID, result |-> "pending"])]
            /\ task' = [task EXCEPT ![r].pc = "fetching"]
    /\ UNCHANGED <<req, hpc, resp, postLog, hlog, crashed>>
    /\ UNCHANGED textVars

CallDownloadPage(r) ==
    /\ AtLink(r)
    /\ HasNotionSuffix(CurrentLink(r).Domain)
    /\ CurrentLink(r).URL.wellformed
    /\ LET pageID == ExtractNoDashIDFromNotionURL(NormalizeURL(CurrentLink(r).URL))
       IN fetchLog' = [fetchLog EXCEPT ![r] =
                          Append(@, [i |-> task[r].i, pageID |-> pageID, result |-> "pending"])]
    /\ task' = [task EXCEPT ![r].pc = "fetching"]
    /\ UNCHANGED <<req, hpc, resp, postLog, hlog, crashed>>
    /\ UNCHANGED textVars

\* the DownloadPage call the goroutine waits in
PendingFetch(r) == fetchLog[r][Len(fetchLog[r])]

FetchReturned(r, result) ==
    [fetchLog EXCEPT ![r][Len(fetchLog[r])].result = result]

\* lines 186-190: DownloadPage returns an error (no such page, or the network
\* or the API fails), which is logged
\* a failed fetch tried once more before the link is given up
DownloadPageFailsRetried(r) ==
    /\ ~crashed
    /\ task[r].pc = "fetching"
    /\ fetchLog' = FetchReturned(r, "error")
    /\ task' = [task EXCEPT ![r].pc = "loop",
                            ![r].i = IF Len(fetchLog[r]) > 1
                                        /\ fetchLog[r][Len(fetchLog[r]) - 1].i = task[r].i
                                     THEN @ + 1 ELSE @]
    /\ UNCHANGED <<req, hpc, resp, postLog, hlog, crashed>>
    /\ UNCHANGED textVars

DownloadPageFails(r) ==
    /\ ~crashed
    /\ task[r].pc = "fetching"
    /\ fetchLog' = FetchReturned(r, "error")
    /\ task' = [task EXCEPT ![r].pc = "loop", ![r].i = @ + 1]
    /\ UNCHANGED <<req, hpc, resp, postLog, hlog, crashed>>
    /\ UNCHANGED textVars

\* a title that is taken as it comes, empty or not
ResolveTitleUnchecked(page) ==
    IF page.title # "" THEN [outcome |-> "ok", title |-> page.title]
    ELSE IF Len(page.views) = 0 THEN [outcome |-> "panic", title |-> ""]
    ELSE [outcome |-> "ok", title |-> page.views[1]]

\* lines 192-200: the page's title or, when it is empty, the name of the
\* collection of TableViews[0]; indexing an empty TableViews panics
ResolveTitle(page) ==
    IF page.title # "" THEN [outcome |-> "ok", title |-> page.title]
    ELSE IF Len(page.views) = 0 THEN [outcome |-> "panic", title |-> ""]
    ELSE IF page.views[1] = "" THEN [outcome |-> "skip", title |-> ""]
    ELSE [outcome |-> "ok", title |-> page.views[1]]

\* line 203: the key of the entry, link.URL
UnfurlKey(link) == link.URL

\* a preview whose text comes out of a buffer the goroutines share and that
\* the first resolution drains
AttachmentFromSharedBuffer(link, title, page) ==
    [Title |-> title, TitleLink |-> link.URL, Footer |-> "Notion",
     Text |-> IF \E q \in DOMAIN task : DOMAIN task[q].unfurls # {}
              THEN << >> ELSE get_text(page.md)]

\* lines 203-208
Attachment(link, title, page) ==
    [Title |-> title, TitleLink |-> link.URL, Footer |-> "Notion", Text |-> get_text(page.md)]

\* unfurls[key] = att on a Go map
MapSet(m, key, att) ==
    [k \in (DOMAIN m) \cup {key} |-> IF k = key THEN att ELSE m[k]]

PageFetched(r) ==
    /\ ~crashed
    /\ task[r].pc = "fetching"
    /\ PendingFetch(r).pageID \in DOMAIN PageStore

\* lines 186-209: DownloadPage returns the page, a title is found, and the
\* attachment is put in the map
AddUnfurl(r) ==
    /\ PageFetched(r)
    /\ LET page == PageStore[PendingFetch(r).pageID]
           t == ResolveTitle(page)
       IN /\ t.outcome = "ok"
          /\ task' = [task EXCEPT
                         ![r].pc = "loop",
                         ![r].i = @ + 1,
                         ![r].resolved = @ \cup {task[r].i},
                         ![r].unfurls = MapSet(@, UnfurlKey(CurrentLink(r)),
                                               Attachment(CurrentLink(r), t.title, page))]
    /\ fetchLog' = FetchReturned(r, "ok")
    /\ UNCHANGED <<req, hpc, resp, postLog, hlog, crashed>>
    /\ UNCHANGED textVars

\* lines 186-199: DownloadPage returns the page, neither it nor its first
\* table view's collection has a name, "title is not found" is logged
SkipUntitled(r) ==
    /\ PageFetched(r)
    /\ ResolveTitle(PageStore[PendingFetch(r).pageID]).outcome = "skip"
    /\ task' = [task EXCEPT ![r].pc = "loop", ![r].i = @ + 1]
    /\ fetchLog' = FetchReturned(r, "ok")
    /\ UNCHANGED <<req, hpc, resp, postLog, hlog, crashed>>
    /\ UNCHANGED textVars

\* lines 186-194: DownloadPage returns a page with no title and no table view;
\* TableViews[0] is out of range, and the panic of a goroutine nobody recovers
\* ends the process
PanicOnNoTableView(r) ==
    /\ PageFetched(r)
    /\ ResolveTitle(PageStore[PendingFetch(r).pageID]).outcome = "panic"
    /\ task' = [task EXCEPT ![r].pc = "panicked"]
    /\ fetchLog' = FetchReturned(r, "ok")
    /\ crashed' = TRUE
    /\ UNCHANGED <<req, hpc, resp, postLog, hlog>>
    /\ UNCHANGED textVars

AfterLoop(r) ==
    /\ ~crashed
    /\ task[r].pc = "loop"
    /\ task[r].i > Len(Links(r))

\* lines 211-213
ReturnEmpty(r) ==
    /\ AfterLoop(r)
    /\ DOMAIN task[r].unfurls = {}
    /\ task' = [task EXCEPT ![r].pc = "done"]
    /\ UNCHANGED <<req, hpc, resp, fetchLog, postLog, hlog, crashed>>
    /\ UNCHANGED textVars

\* line 215: slackCli.PostMessage(ev.Channel, MsgOptionUnfurl(ts, unfurls)) called
\* the map of line 169 as a package variable: one batch for all goroutines
CallPostMessageOfSharedMap(r) ==
    /\ AfterLoop(r)
    /\ \E q \in DOMAIN task : DOMAIN task[q].unfurls # {}
    /\ LET all == UNION {DOMAIN task[q].unfurls : q \in DOMAIN task}
           holder(u) == CHOOSE q \in DOMAIN task : u \in DOMAIN task[q].unfurls
       IN postLog' = [postLog EXCEPT ![r] =
                         Append(@, [channel |-> req[r].body.channel, ts |-> req[r].body.ts,
                                    unfurls |-> [u \in all |-> task[holder(u)].unfurls[u]],
                                    result |-> "pending"])]
    /\ task' = [task EXCEPT ![r].pc = "posting"]
    /\ UNCHANGED <<req, hpc, resp, fetchLog, hlog, crashed>>
    /\ UNCHANGED textVars

CallPostMessage(r) ==
    /\ AfterLoop(r)
    /\ DOMAIN task[r].unfurls # {}
    /\ postLog' = [postLog EXCEPT ![r] =
                      Append(@, [channel |-> req[r].body.channel, ts |-> req[r].body.ts,
                                 unfurls |-> task[r].unfurls, result |-> "pending"])]
    /\ task' = [task EXCEPT ![r].pc = "posting"]
    /\ UNCHANGED <<req, hpc, resp, fetchLog, hlog, crashed>>
    /\ UNCHANGED textVars

\* lines 215-219: PostMessage returns; an error is logged, and unfurl returns
\* line 217 written with log.Fatalln: a failed post ends the process
PostMessageReturnsOrExits(r) ==
    /\ ~crashed
    /\ task[r].pc = "posting"
    /\ \E result \in {"ok", "error"} :
          /\ postLog' = [postLog EXCEPT ![r][Len(postLog[r])].result = result]
          /\ crashed' = (result = "error")
    /\ task' = [task EXCEPT ![r].pc = "done"]
    /\ UNCHANGED <<req, hpc, resp, fetchLog, hlog>>
    /\ UNCHANGED textVars

\* a goroutine that, after a failed post, waits for a signal nobody sends
PostMessageReturnsOrBlocks(r) ==
    /\ ~crashed
    /\ task[r].pc = "posting"
    /\ \E result \in {"ok", "error"} :
          /\ postLog' = [postLog EXCEPT ![r][Len(postLog[r])].result = result]
          /\ task' = [task EXCEPT ![r].pc = IF result = "ok" THEN "done" ELSE "blocked"]
    /\ UNCHANGED <<req, hpc, resp, fetchLog, hlog, crashed>>
    /\ UNCHANGED textVars

PostMessageReturns(r) ==
    /\ ~crashed
    /\ task[r].pc = "posting"
    /\ \E result \in {"ok", "error"} :
          postLog' = [postLog EXCEPT ![r][Len(postLog[r])].result = result]
    /\ task' = [task EXCEPT ![r].pc = "done"]
    /\ UNCHANGED <<req, hpc, resp, fetchLog, hlog, crashed>>
    /\ UNCHANGED textVars

-----------------------------------------------------------------------------

\* the requests the server has been handed
Handled == DOMAIN req

Init ==
    /\ req \in [Requests -> RequestInputs]
    /\ hpc = [r \in Requests |-> "new"]
    /\ resp = [r \in Requests |-> NoResponse]
    /\ task = [r \in Requests |-> NoTask]
    /\ fetchLog = [r \in Requests |-> << >>]
    /\ postLog = [r \in Requests |-> << >>]
    /\ hlog = [r \in Requests |-> << >>]
    /\ crashed = FALSE
    /\ md = << >>
    /\ text = << >>
    /\ preview = << >>
    /\ gpc = "idle"

Next ==
    \E r \in Handled :
        \/ Serve(r)
        \/ Ack(r)
        \/ SkipForeignDomain(r)
        \/ SkipUnparsableURL(r)
        \/ CallDownloadPage(r)
        \/ DownloadPageFails(r)
        \/ AddUnfurl(r)
        \/ SkipUntitled(r)
        \/ PanicOnNoTableView(r)
        \/ ReturnEmpty(r)
        \/ CallPostMessage(r)
        \/ PostMessageReturns(r)

Spec == Init /\ [][Next]_vars

-----------------------------------------------------------------------------
(* Two link_shared events served at once: net/http runs index in a         *)
(* goroutine per request and line 132 starts one unfurl goroutine per      *)
(* event, so the two goroutines interleave freely.                         *)

MaxConcLinks == 1

ConcRequests == {1, 2}

\* the links of the concurrent events: two pages that resolve, a link of
\* another site, one url.Parse rejects, one without a usable title, one that
\* panics
ConcLinks == {l \in CandidateLinks : l.Domain # ApexDomain}

\* each event is of a message of its own
ConcRef(r) == IF r = 1 THEN << "C1", "1.1" >> ELSE << "C2", "2.2" >>

ConcInputs(r) ==
    {Request("POST", TRUE, "valid", TRUE, EventBody("link_shared", "", ConcRef(r), ls)) :
        ls \in SeqsUpTo(ConcLinks, MaxConcLinks)}

ConcInit ==
    /\ req \in {f \in [ConcRequests -> UNION {ConcInputs(r) : r \in ConcRequests}] :
                    \A r \in ConcRequests : f[r] \in ConcInputs(r)}
    /\ hpc = [r \in ConcRequests |-> "new"]
    /\ resp = [r \in ConcRequests |-> NoResponse]
    /\ task = [r \in ConcRequests |-> NoTask]
    /\ fetchLog = [r \in ConcRequests |-> << >>]
    /\ postLog = [r \in ConcRequests |-> << >>]
    /\ hlog = [r \in ConcRequests |-> << >>]
    /\ crashed = FALSE
    /\ md = << >>
    /\ text = << >>
    /\ preview = << >>
    /\ gpc = "idle"

ConcSpec == ConcInit /\ [][Next]_vars

-----------------------------------------------------------------------------
(* Progress.  The Go scheduler runs every goroutine that can run, and the  *)
(* calls DownloadPage and PostMessage are taken to return: a step of the   *)
(* handler or of the unfurl goroutine that stays possible is taken.        *)

\* a step of the handler of r
IndexStep(r) == Serve(r) \/ Ack(r)

\* a step of the unfurl goroutine of r
UnfurlStep(r) ==
    \/ SkipForeignDomain(r)
    \/ SkipUnparsableURL(r)
    \/ CallDownloadPage(r)
    \/ DownloadPageFails(r)
    \/ AddUnfurl(r)
    \/ SkipUntitled(r)
    \/ PanicOnNoTableView(r)
    \/ ReturnEmpty(r)
    \/ CallPostMessage(r)
    \/ PostMessageReturns(r)

FairSpec ==
    /\ Init
    /\ [][Next]_vars
    /\ \A r \in Requests : WF_vars(IndexStep(r)) /\ WF_vars(UnfurlStep(r))

-----------------------------------------------------------------------------
(* Properties of the handler and of unfurl, checked under Spec.            *)

\* a POST whose body could be read and whose signature is the right one
Verified(r) ==
    /\ req[r].method = "POST"
    /\ req[r].readOk
    /\ req[r].sig = "valid"

\* a POST whose signature is missing, malformed, too old or not that of the body
BadlySigned(r) ==
    /\ req[r].method = "POST"
    /\ req[r].readOk
    /\ req[r].sig \in BadSignatures

\* the unfurl goroutine of r made no call and was never started
NoOutboundWork(r) ==
    /\ task[r] = NoTask
    /\ fetchLog[r] = << >>
    /\ postLog[r] = << >>
    /\ \A k \in 1..Len(hlog[r]) : hlog[r][k] # "go unfurl"

\* C1: a POST whose signature is missing, malformed or does not match the body
\* is answered 400 and nothing else happens: the payload is not parsed, no
\* unfurl goroutine is spawned, no page is fetched and nothing is posted.
C1_BadSignatureRejected ==
    \A r \in Requests :
        BadlySigned(r) =>
            /\ NoOutboundWork(r)
            /\ \A k \in 1..Len(hlog[r]) : hlog[r][k] # "ParseEvent"
            /\ hpc[r] \in {"new", "done"}
            /\ hpc[r] = "done" => resp[r] = Response(400, "", "")

\* a forged link_shared event, signed with a signature that is not the
\* body's, has been answered
C1_Witness ==
    \E r \in Requests :
        /\ BadlySigned(r)
        /\ req[r].sig = "mismatch"
        /\ req[r].body.kind = "link_shared"
        /\ hpc[r] = "done"

\* C2: a validly signed url_verification request is answered 200, text/plain,
\* with exactly the challenge it carried, within the handler: no unfurl
\* goroutine is spawned and no outbound call is made.
C2_ChallengeEchoed ==
    \A r \in Requests :
        (Verified(r) /\ req[r].body.kind = "url_verification") =>
            /\ NoOutboundWork(r)
            /\ hpc[r] \in {"new", "done"}
            /\ hpc[r] = "done" =>
                  /\ resp[r].status = 200
                  /\ resp[r].ctype = "text/plain"
                  /\ resp[r].body = req[r].body.challenge

\* a handshake with a non-empty challenge has been answered
C2_Witness ==
    \E r \in Requests :
        /\ Verified(r)
        /\ req[r].body.kind = "url_verification"
        /\ req[r].body.challenge = "c0ffee"
        /\ hpc[r] = "done"

\* a validly signed link_shared callback
VerifiedLinkShared(r) == Verified(r) /\ req[r].body.kind = "link_shared"

\* the unfurl goroutine of r has ended: it returned, or it panicked
Terminated(r) == task[r].pc \in {"done", "panicked"}

\* the domain ends with ".notion.so", said without the model's HasSuffix
EndsWithDotNotionSo(domain) ==
    \E k \in 1..Len(domain) :
        /\ Len(domain) - k + 1 = 10
        /\ [j \in 1..10 |-> domain[k + j - 1]]
              = << 46, 110, 111, 116, 105, 111, 110, 46, 115, 111 >>

\* the URLs of the links of r that were resolved
ResolvedURLs(r) == {Links(r)[j].URL : j \in task[r].resolved}

\* C3: for an event with N links of which M < N resolve (read with C4: M > 0,
\* an empty batch is not posted), the goroutine makes exactly one post call,
\* and the call carries exactly M entries.
C3_OnePostWithMEntries ==
    \A r \in Requests :
        LET N == Len(Links(r))
            M == Cardinality(task[r].resolved)
        IN (Terminated(r) /\ 0 < M /\ M < N) =>
              /\ Len(postLog[r]) = 1
              /\ Cardinality(DOMAIN postLog[r][1].unfurls) = M

\* C4: a batch that is empty when the links are done is not posted (so nothing
\* is posted for an event none of whose links is of the supported domain), and
\* a link of another domain causes no DownloadPage call.
C4_EmptyBatchNotPosted ==
    \A r \in Requests :
        /\ \A k \in 1..Len(postLog[r]) : DOMAIN postLog[r][k].unfurls # {}
        /\ (task[r].pc = "done" /\ DOMAIN task[r].unfurls = {}) => postLog[r] = << >>
        /\ (\A j \in 1..Len(Links(r)) : ~EndsWithDotNotionSo(Links(r)[j].Domain)) =>
              (postLog[r] = << >> /\ fetchLog[r] = << >>)
        /\ \A k \in 1..Len(fetchLog[r]) :
              EndsWithDotNotionSo(Links(r)[fetchLog[r][k].i].Domain)

\* the goroutine returned without a post from an event whose two links are
\* both of other domains
C4_Witness ==
    \E r \in Requests :
        /\ task[r].pc = "done"
        /\ Len(Links(r)) = 2
        /\ \A j \in 1..2 : ~EndsWithDotNotionSo(Links(r)[j].Domain)
        /\ postLog[r] = << >>
        /\ fetchLog[r] = << >>

C6_FailureNeverAbortsBatch ==
    \A r \in Requests :
        Terminated(r) =>
            /\ \A j \in 1..Len(Links(r)) : j # task[r].i => j < task[r].i
            /\ task[r].resolved # {} =>
                  /\ Len(postLog[r]) = 1
                  /\ DOMAIN postLog[r][1].unfurls = ResolvedURLs(r)

\* the titles a page offers: its own, or else the name of its first view
TitleOffered(page) ==
    IF page.title # "" THEN page.title
    ELSE IF Len(page.views) > 0 THEN page.views[1] ELSE ""

\* C7: every entry of the batch belongs to a link of the event whose domain
\* ends with the supported suffix, whose page was fetched, and for which a
\* non-empty title was obtained; the same holds of what is posted.
C7_OnlyResolvedLinksInBatch ==
    \A r \in Requests :
        LET Sound(m) ==
                \A u \in DOMAIN m :
                    /\ m[u].Title # ""
                    /\ \E j \in 1..Len(Links(r)) :
                          /\ Links(r)[j].URL = u
                          /\ EndsWithDotNotionSo(Links(r)[j].Domain)
                          /\ \E k \in 1..Len(fetchLog[r]) :
                                /\ fetchLog[r][k].i = j
                                /\ fetchLog[r][k].result = "ok"
                                /\ fetchLog[r][k].pageID \in DOMAIN PageStore
                                /\ m[u].Title = TitleOffered(PageStore[fetchLog[r][k].pageID])
        IN /\ Sound(task[r].unfurls)
           /\ \A k \in 1..Len(postLog[r]) : Sound(postLog[r][k].unfurls)

\* a batch with the entry of a page titled by its first view, built from an
\* event whose other link's page has no title
C7_Witness ==
    \E r \in Requests :
        /\ Len(Links(r)) = 2
        /\ Cardinality(DOMAIN task[r].unfurls) = 1
        /\ \E u \in DOMAIN task[r].unfurls : task[r].unfurls[u].Title = "Tasks"
        /\ \E k \in 1..Len(fetchLog[r]) :
              /\ fetchLog[r][k].pageID = "emptyview"
              /\ fetchLog[r][k].result = "ok"

\* "https://x.notion.so/Doc-abc123?v=1" and "https://example.com/page"
ExampleLinks ==
    << Link(NotionDomain, RawURL("abc123", "v=1", "", TRUE)),
       Link(OtherDomain, RawURL("page", "", "", TRUE)) >>

\* C8: the page that is fetched is the one the link's URL names once query and
\* fragment are removed, while the key of the entry and its TitleLink are the
\* URL as received, not the normalized one; of the links of the example only
\* the first is fetched, and the batch has its URL, query included, as only key.
C8_FetchNormalizedKeyOriginal ==
    \A r \in Requests :
        /\ \A k \in 1..Len(fetchLog[r]) :
              fetchLog[r][k].pageID = Links(r)[fetchLog[r][k].i].URL.doc
        /\ DOMAIN task[r].unfurls = ResolvedURLs(r)
        /\ \A u \in DOMAIN task[r].unfurls : task[r].unfurls[u].TitleLink = u
        /\ (task[r].pc # "none" /\ Links(r) = ExampleLinks) =>
              /\ \A k \in 1..Len(fetchLog[r]) :
                    fetchLog[r][k].i = 1 /\ fetchLog[r][k].pageID = "abc123"
              /\ Len(fetchLog[r]) <= 1
              /\ 1 \in task[r].resolved =>
                    DOMAIN task[r].unfurls = {RawURL("abc123", "v=1", "", TRUE)}

\* the links of the example, the first resolved, and the batch posted
C8_Witness ==
    \E r \in Requests :
        /\ Links(r) = ExampleLinks
        /\ task[r].pc = "done"
        /\ task[r].resolved = {1}
        /\ Len(postLog[r]) = 1
        /\ DOMAIN postLog[r][1].unfurls = {RawURL("abc123", "v=1", "", TRUE)}

-----------------------------------------------------------------------------
(* Properties of get_text, checked under TextSpec.                         *)

\* C9: the preview get_text returns never has more than 1000 code points, and
\* when the selected text has more than 1000, the preview is exactly its first
\* 1000 code points (code points, not bytes).
C9_PreviewAtMost1000Runes ==
    gpc = "returned" =>
        LET rs == Runes(text)
            ps == Runes(preview)
        IN /\ Len(ps) <= 1000
           /\ Len(rs) > 1000 => (Len(ps) = 1000 /\ ps = SubSeq(rs, 1, 1000))

\* a text of more than 1000 multi-byte characters was cut: the preview has
\* 1000 code points and more than 1000 bytes
C9_Witness ==
    /\ gpc = "returned"
    /\ Len(Runes(text)) > 1000
    /\ Len(Runes(preview)) = 1000
    /\ Len(preview) > 1000

\* C10: the text before truncation is the newline-join of the lines 3 to 27
\* (1-based) of the markdown, those that exist: the first two lines are never
\* in it whatever they hold, at most 25 lines are kept, and empty lines among
\* them are kept and count.  (The lines are the pieces between the newlines:
\* none holds a newline, and joined by newlines they give the markdown back.)
C10_Lines3To27Joined ==
    gpc \in {"joined", "returned"} =>
        LET pieces == Split(md)
        IN /\ \A k \in 1..Len(pieces) : \A j \in 1..Len(pieces[k]) : pieces[k][j] # 10
           /\ Join(pieces) = md
           /\ text = Join(SubSeq(pieces, 3, Min(27, Len(pieces))))

\* a markdown of more than 27 lines with a title line, whose lines 3 to 27
\* have empty ones and others among them
C10_Witness ==
    /\ gpc = "joined"
    /\ LET pieces == Split(md)
       IN /\ Len(pieces) > 27
          /\ pieces[1] # << >>
          /\ \E k \in 3..27 : pieces[k] = << >>
          /\ \E k \in 3..27 : pieces[k] # << >>

-----------------------------------------------------------------------------
(* The responses of index, src/deglacer.go:77-139                          *)

\* a verified POST whose body slackevents parsed without error
Parsed(r) == Verified(r) /\ req[r].body.kind \notin {"badjson", "bad_inner"}

\* the responses the handler is said to give to a request of this method
ListedResponse(r) ==
    CASE req[r].method = "GET" -> resp[r].status = 200 /\ resp[r].body = "Hello"
      [] req[r].method = "POST" ->
            \/ resp[r].status = 200 /\ resp[r].body = req[r].body.challenge
                  /\ req[r].body.kind = "url_verification"
            \/ resp[r].status = 200 /\ resp[r].body = "ok"
            \/ resp[r].status = 400 /\ resp[r].body = "" /\ ~Parsed(r)
      [] OTHER -> resp[r].status = 405

\* C11 as stated: every response is the greeting (GET), the challenge, "ok"
\* or 400 (POST), or 405 (any other method), and every verified, parseable
\* POST event of any top-level type gets the challenge or the "ok" body.
C11_EveryEventGetsChallengeOrOk ==
    \A r \in Handled :
        hpc[r] = "done" =>
            /\ ListedResponse(r)
            /\ Parsed(r) =>
                  \/ req[r].body.kind = "url_verification"
                        /\ resp[r].body = req[r].body.challenge
                  \/ resp[r].body = "ok"

\* C11: every response is the greeting (GET), 405 (a method other than GET
\* and POST) or, for a POST, the challenge, "ok", 400 when reading, verifying
\* or parsing failed, or 200 with an empty body, which is what a verified,
\* parseable event gets when its top-level type is neither url_verification
\* nor event_callback, and only such an event.
C11_ResponsesOfIndex ==
    \A r \in Handled :
        hpc[r] = "done" =>
            \/ ListedResponse(r)
            \/ /\ Parsed(r)
               /\ req[r].body.kind = "other_top"
               /\ resp[r] = Response(200, "", "")

\* a verified event of another top-level type has been answered, with 200
\* and no body
C11_Witness ==
    \E r \in Handled :
        /\ Parsed(r)
        /\ req[r].body.kind = "other_top"
        /\ hpc[r] = "done"
        /\ resp[r].status = 200
        /\ resp[r].body = ""

\* a validly signed event_callback whose inner event is not link_shared:
\* of a type slackevents knows, or of one it does not
VerifiedOtherCallback(r) ==
    Verified(r) /\ req[r].body.kind \in {"other_inner", "bad_inner"}

\* C12: a verified callback event whose inner event type is not link_shared
\* is answered 200 with the acknowledgment "ok" and nothing else is done:
\* no unfurl goroutine is spawned, no page is fetched, nothing is posted.
C12_OtherCallbackAcked ==
    \A r \in Handled :
        VerifiedOtherCallback(r) =>
            /\ NoOutboundWork(r)
            /\ hpc[r] \in {"new", "done"}
            /\ hpc[r] = "done" => resp[r].status = 200 /\ resp[r].body = "ok"

-----------------------------------------------------------------------------
(* The title of a preview, src/deglacer.go:192-200                         *)

\* the fetches of r that returned a page
FetchedOk(r) == {k \in 1..Len(fetchLog[r]) : fetchLog[r][k].result = "ok"}

\* the title the claim gives a page: its own, else the name of the first
\* view's collection, later views never looked at; "" when there is none
ClaimedTitle(page) ==
    IF page.title # "" THEN page.title
    ELSE IF page.views = << >> THEN ""
    ELSE Head(page.views)

\* C14: the title of a preview is the page's own title when that is not
\* empty, else the name of the collection of the first embedded view (later
\* views are never consulted); a page with an empty title and no view, or
\* whose first view has an empty name, is skipped like any other failure:
\* it gets no entry and the goroutine goes on with the next link.
C14_TitleOrSkip ==
    \A r \in Handled :
        \A k \in FetchedOk(r) :
            LET j == fetchLog[r][k].i
                page == PageStore[fetchLog[r][k].pageID]
                link == Links(r)[j]
            IN IF ClaimedTitle(page) # ""
               THEN /\ j \in task[r].resolved
                    /\ task[r].unfurls[link.URL].Title = ClaimedTitle(page)
               ELSE /\ j \notin task[r].resolved
                    /\ task[r].pc # "panicked"
                    /\ ~crashed
                    /\ task[r].i > j

-----------------------------------------------------------------------------
(* Resolution is a function of the link and the page, lines 141-166 and    *)
(* 171-208; checked under ConcSpec, where two goroutines resolve links.    *)

-----------------------------------------------------------------------------
(* A failed post, lines 215-218; checked under ConcSpec.                   *)

\* the post of r was made and came back with an error
PostFailed(r) == postLog[r] # << >> /\ postLog[r][Len(postLog[r])].result = "error"

\* C15: a failed post is logged and nothing more: the goroutine makes no
\* second post and no further fetch and ends, and neither the HTTP responses
\* nor the other goroutines see anything of it.
C15_PostFailureOnlyLogged ==
    /\ [](\A r \in Handled :
            /\ Len(postLog[r]) <= 1
            /\ PostFailed(r) => task[r].pc = "done")
    /\ [][\A r \in Handled :
            /\ (~PostFailed(r) /\ PostFailed(r)') =>
                  /\ resp' = resp /\ hpc' = hpc /\ hlog' = hlog
                  /\ fetchLog' = fetchLog
                  /\ crashed' = crashed
                  /\ \A q \in Handled \ {r} : task'[q] = task[q] /\ postLog'[q] = postLog[q]
            /\ PostFailed(r) =>
                  /\ task'[r] = task[r]
                  /\ postLog'[r] = postLog[r]
                  /\ fetchLog'[r] = fetchLog[r]]_vars

\* the post of one event failed, its request was acknowledged all the same,
\* and the goroutine of the other event went on to post with success
C15_Witness ==
    \E r \in Handled, q \in Handled :
        /\ r # q
        /\ PostFailed(r)
        /\ task[r].pc = "done"
        /\ hpc[r] = "done" /\ resp[r].body = "ok"
        /\ postLog[q] # << >> /\ postLog[q][1].result = "ok"

-----------------------------------------------------------------------------
(* The batch of a goroutine is its own, lines 168-170 and 215; checked     *)
(* under ConcSpec.                                                         *)

\* the URLs of the links of the event of r
OwnURLs(r) == {Links(r)[j].URL : j \in 1..Len(Links(r))}

\* C16: however the unfurl goroutines interleave, the batch of each is
\* private: the batch and the post of a goroutine hold entries for URLs of
\* its own event only, each the preview of that URL, and the post goes to
\* the channel and message timestamp of its own event.
C16_BatchIsPrivate ==
    \A r \in Handled :
        /\ DOMAIN task[r].unfurls \subseteq OwnURLs(r)
        /\ DOMAIN task[r].unfurls = ResolvedURLs(r)
        /\ \A k \in 1..Len(postLog[r]) :
              /\ DOMAIN postLog[r][k].unfurls \subseteq OwnURLs(r)
              /\ DOMAIN postLog[r][k].unfurls = ResolvedURLs(r)
              /\ \A u \in DOMAIN postLog[r][k].unfurls : postLog[r][k].unfurls[u].TitleLink = u
              /\ postLog[r][k].channel = req[r].body.channel
              /\ postLog[r][k].ts = req[r].body.ts

\* two goroutines that resolved different URLs for different messages have
\* both posted
C16_Witness ==
    \E r \in Handled, q \in Handled :
        /\ req[r].body.ts # req[q].body.ts
        /\ postLog[r] # << >>
        /\ postLog[q] # << >>
        /\ DOMAIN postLog[r][1].unfurls \cap DOMAIN postLog[q][1].unfurls = {}

-----------------------------------------------------------------------------
(* One entry per URL, one fetch per occurrence, lines 169-208; checked     *)
(* under Spec.                                                             *)

\* a link the loop fetches: of a domain ending with ".notion.so", with a URL
\* url.Parse accepts
Fetchable(link) == EndsWithDotNotionSo(link.Domain) /\ link.URL.wellformed

\* the places of the link list the loop has come to fetch
ReachedForFetch(r) ==
    {j \in 1..Len(Links(r)) :
        /\ Fetchable(Links(r)[j])
        /\ \/ j < task[r].i
           \/ j = task[r].i /\ task[r].pc \in {"fetching", "panicked"}}

\* the fetch calls of r made for the URL u
FetchesFor(r, u) == {k \in 1..Len(fetchLog[r]) : Links(r)[fetchLog[r][k].i].URL = u}

-----------------------------------------------------------------------------
(* The order of the calls of one goroutine, lines 171-218; checked under   *)
(* Spec.                                                                   *)

-----------------------------------------------------------------------------
(* Termination of unfurl, lines 168-219; checked under FairSpec.           *)

\* C19: every unfurl goroutine that was started ends, given that its fetch
\* and post calls return, whatever each link's outcome is; it makes at most
\* one fetch per link and at most one post; and it has no timeout or
\* cancellation of its own: it leaves a call only when the call returns.
C19_UnfurlTerminates ==
    /\ \A r \in Requests : (task[r].pc # "none") ~> Terminated(r)
    /\ [](\A r \in Requests :
            /\ Len(postLog[r]) <= 1
            /\ \A j \in 1..Len(Links(r)) :
                  Cardinality({k \in 1..Len(fetchLog[r]) : fetchLog[r][k].i = j}) <= 1)
    /\ [][\A r \in Requests :
            /\ (task[r].pc = "fetching" /\ task'[r] # task[r]) =>
                  fetchLog'[r][Len(fetchLog[r])].result # "pending"
            /\ (task[r].pc = "posting" /\ task'[r] # task[r]) =>
                  postLog'[r][Len(postLog[r])].result # "pending"]_vars

\* a goroutine has returned after two fetches, one failed and one that gave
\* a page, and a post that failed
C19_Witness ==
    \E r \in Requests :
        /\ task[r].pc = "done"
        /\ Len(fetchLog[r]) = 2
        /\ \E k \in 1..2 : fetchLog[r][k].result = "error"
        /\ PostFailed(r)

=============================================================================
